---- MODULE Spec2Model ----
(***************************************************************************)
(* A model of app.py, the Streamlit page of the AI image generator: the    *)
(* style presets, prompt composition, the one-shot remote call with its    *)
(* error classification, and the capped most-recent-first image history    *)
(* kept in st.session_state.                                               *)
(*                                                                         *)
(* Python strings are sequences of one-character strings, so that strip(), *)
(* lower(), "+" and the "in" substring test are computed, not assumed.     *)
(* One action is one run of main() as triggered by one user interaction.   *)
(***************************************************************************)
EXTENDS Integers, Sequences, FiniteSets, TLC

VARIABLES
    HUGGINGFACE_TOKEN,  \* os.getenv("HUGGINGFACE_TOKEN"), fixed for the process
    session_state,      \* st.session_state: a dictionary, empty at session start
    clock,              \* number of datetime.now() readings handed out so far
    run,                \* how the last run of main() ended
    button,             \* the button whose click triggered the last run
    request,            \* widget values read by the last generate click
    calls,              \* client.text_to_image exchanges made during the last run
    image,              \* what generate_image returned in the last run
    shown,              \* st.warning / st.error / st.success / st.info output of the last run
    pushed              \* records inserted since the store was last empty by reset, oldest first

vars == <<HUGGINGFACE_TOKEN, session_state, clock, run, button, request, calls, image, shown, pushed>>

----
\* Bounds of the model

\* datetime.now() readings available to a session
MaxClock == 12

\* ... and to a short session over the wide inputs
MaxWideClock == 1

----
\* Python values

\* the None returned by generate_image on failure
None == "<None>"

\* os.getenv of an unset variable
UnsetToken == [isNone |-> TRUE, str |-> <<>>]

\* truthiness of Optional[str]: None and "" are falsy
TruthyStr(v) == ~v.isNone /\ v.str # <<>>

\* a caller that does not test generate_image's result
image_unchecked(v) == TRUE

\* truthiness of generate_image's result: a PIL image is always truthy
TruthyImage(v) == v # None

\* the ASCII characters removed by str.strip() with no argument
Whitespace == {" ", "\t", "\n", "\r", "\f"}

RECURSIVE lstrip(_)
lstrip(s) == IF s # <<>> /\ Head(s) \in Whitespace THEN lstrip(Tail(s)) ELSE s

RECURSIVE rstrip(_)
rstrip(s) ==
    IF s # <<>> /\ s[Len(s)] \in Whitespace THEN rstrip(SubSeq(s, 1, Len(s) - 1)) ELSE s

\* a prompt used as typed
unstripped(s) == s

\* str.strip()
strip(s) == rstrip(lstrip(s))

UpperCase == <<"A", "B", "C", "D", "E", "F", "G", "H", "I", "J", "K", "L", "M", "N", "O", "P",
    "Q", "R", "S", "T", "U", "V", "W", "X", "Y", "Z">>

LowerCase == <<"a", "b", "c", "d", "e", "f", "g", "h", "i", "j", "k", "l", "m", "n", "o", "p",
    "q", "r", "s", "t", "u", "v", "w", "x", "y", "z">>

lower_char(c) ==
    IF \E i \in 1..Len(UpperCase) : UpperCase[i] = c
    THEN LowerCase[CHOOSE i \in 1..Len(UpperCase) : UpperCase[i] = c]
    ELSE c

\* str.lower()
lower(s) == [i \in 1..Len(s) |-> lower_char(s[i])]

\* the Python test  sub in s  on strings
contains(sub, s) == \E i \in 0..(Len(s) - Len(sub)) : SubSeq(s, i + 1, i + Len(sub)) = sub

----
\* Configuration

STYLE_PRESETS ==
    [k \in {"None", "Anime", "Realistic", "Digital Art", "Watercolor", "Oil Painting",
            "Cyberpunk", "Fantasy"} |->
        CASE k = "None" -> <<>>
          [] k = "Anime" ->
                <<",", " ", "a", "n", "i", "m", "e", " ", "s", "t", "y", "l", "e", ",", " ", "v",
                    "i", "b", "r", "a", "n", "t", " ", "c", "o", "l", "o", "r", "s", ",", " ",
                    "S", "t", "u", "d", "i", "o", " ", "G", "h", "i", "b", "l", "i", " ", "i",
                    "n", "s", "p", "i", "r", "e", "d", ",", " ", "d", "e", "t", "a", "i", "l",
                    "e", "d", " ", "i", "l", "l", "u", "s", "t", "r", "a", "t", "i", "o", "n">>
          [] k = "Realistic" ->
                <<",", " ", "p", "h", "o", "t", "o", "r", "e", "a", "l", "i", "s", "t", "i", "c",
                    ",", " ", "h", "i", "g", "h", "l", "y", " ", "d", "e", "t", "a", "i", "l",
                    "e", "d", ",", " ", "8", "K", " ", "r", "e", "s", "o", "l", "u", "t", "i",
                    "o", "n", ",", " ", "p", "r", "o", "f", "e", "s", "s", "i", "o", "n", "a",
                    "l", " ", "p", "h", "o", "t", "o", "g", "r", "a", "p", "h", "y">>
          [] k = "Digital Art" ->
                <<",", " ", "d", "i", "g", "i", "t", "a", "l", " ", "p", "a", "i", "n", "t", "i",
                    "n", "g", ",", " ", "a", "r", "t", "s", "t", "a", "t", "i", "o", "n", " ",
                    "t", "r", "e", "n", "d", "i", "n", "g", ",", " ", "c", "o", "n", "c", "e",
                    "p", "t", " ", "a", "r", "t", ",", " ", "h", "i", "g", "h", "l", "y", " ",
                    "d", "e", "t", "a", "i", "l", "e", "d">>
          [] k = "Watercolor" ->
                <<",", " ", "w", "a", "t", "e", "r", "c", "o", "l", "o", "r", " ", "p", "a", "i",
                    "n", "t", "i", "n", "g", ",", " ", "s", "o", "f", "t", " ", "c", "o", "l",
                    "o", "r", "s", ",", " ", "a", "r", "t", "i", "s", "t", "i", "c", ",", " ",
                    "d", "e", "l", "i", "c", "a", "t", "e", " ", "b", "r", "u", "s", "h", "s",
                    "t", "r", "o", "k", "e", "s">>
          [] k = "Oil Painting" ->
                <<",", " ", "o", "i", "l", " ", "p", "a", "i", "n", "t", "i", "n", "g", ",", " ",
                    "c", "l", "a", "s", "s", "i", "c", "a", "l", " ", "a", "r", "t", " ", "s",
                    "t", "y", "l", "e", ",", " ", "t", "e", "x", "t", "u", "r", "e", "d", " ",
                    "c", "a", "n", "v", "a", "s", ",", " ", "r", "i", "c", "h", " ", "c", "o",
                    "l", "o", "r", "s">>
          [] k = "Cyberpunk" ->
                <<",", " ", "c", "y", "b", "e", "r", "p", "u", "n", "k", " ", "s", "t", "y", "l",
                    "e", ",", " ", "n", "e", "o", "n", " ", "l", "i", "g", "h", "t", "s", ",",
                    " ", "f", "u", "t", "u", "r", "i", "s", "t", "i", "c", ",", " ", "s", "c",
                    "i", "-", "f", "i", ",", " ", "d", "a", "r", "k", " ", "a", "t", "m", "o",
                    "s", "p", "h", "e", "r", "e">>
          [] k = "Fantasy" ->
                <<",", " ", "f", "a", "n", "t", "a", "s", "y", " ", "a", "r", "t", ",", " ", "m",
                    "a", "g", "i", "c", "a", "l", ",", " ", "e", "n", "c", "h", "a", "n", "t",
                    "e", "d", ",", " ", "e", "p", "i", "c", " ", "s", "c", "e", "n", "e", ",",
                    " ", "m", "y", "s", "t", "i", "c", "a", "l", " ", "a", "t", "m", "o", "s",
                    "p", "h", "e", "r", "e">>]

\* "Limit to 10 images"
HistoryLimit == 10

----
\* Messages the page displays

WarnEmptyPrompt == [level |-> "warning", text |-> "Please enter a description for your image.", arg |-> <<>>]

ErrModelLoading ==
    [level |-> "error", text |-> "Model is currently loading. Please wait a moment and try again.", arg |-> <<>>]

ErrRateLimited ==
    [level |-> "error", text |-> "Rate limit reached. Please wait a few minutes before trying again.", arg |-> <<>>]

ErrUnauthorized ==
    [level |-> "error", text |-> "Authentication failed. Please check your HuggingFace token has 'Write' permissions.", arg |-> <<>>]

\* f"An error occurred: {error_msg}"
ErrUnknown(error_msg) == [level |-> "error", text |-> "An error occurred: ", arg |-> error_msg]

ErrTokenNotFound == [level |-> "error", text |-> "HuggingFace API token not found!", arg |-> <<>>]

InfoSetup == [level |-> "info", text |-> "Setup Instructions", arg |-> <<>>]

OkGenerated == [level |-> "success", text |-> "Image generated successfully!", arg |-> <<>>]

----
\* generate_image

\* the same tests with the rate-limit pair tried first
error_display_rate_first(error_msg) ==
    IF contains(<<"4", "2", "9">>, error_msg) \/ contains(<<"r", "a", "t", "e", " ", "l", "i",
        "m", "i", "t">>, lower(error_msg))
    THEN ErrRateLimited
    ELSE IF contains(<<"5", "0", "3">>, error_msg) \/ contains(<<"l", "o", "a", "d", "i", "n",
        "g">>, lower(error_msg))
    THEN ErrModelLoading
    ELSE IF contains(<<"4", "0", "1">>, error_msg) \/ contains(<<"u", "n", "a", "u", "t", "h",
        "o", "r", "i", "z", "e", "d">>, lower(error_msg))
    THEN ErrUnauthorized
    ELSE ErrUnknown(error_msg)

\* the except branch: the st.error chosen from str(e)
error_display(error_msg) ==
    IF contains(<<"5", "0", "3">>, error_msg) \/ contains(<<"l", "o", "a", "d", "i", "n",
        "g">>, lower(error_msg))
    THEN ErrModelLoading
    ELSE IF contains(<<"4", "2", "9">>, error_msg) \/ contains(<<"r", "a", "t", "e", " ", "l",
        "i", "m", "i", "t">>, lower(error_msg))
    THEN ErrRateLimited
    ELSE IF contains(<<"4", "0", "1">>, error_msg) \/ contains(<<"u", "n", "a", "u", "t", "h",
        "o", "r", "i", "z", "e", "d">>, lower(error_msg))
    THEN ErrUnauthorized
    ELSE ErrUnknown(error_msg)

\* a generate_image that calls once more when the model is loading
generate_image_retry(prompt, response) ==
    IF response.ok
    THEN [image |-> response.image,
          calls |-> <<[prompt |-> prompt, response |-> response]>>,
          errors |-> <<>>]
    ELSE IF error_display(response.error) = ErrModelLoading
    THEN [image |-> None,
          calls |-> <<[prompt |-> prompt, response |-> response],
                      [prompt |-> prompt, response |-> response]>>,
          errors |-> <<error_display(response.error)>>]
    ELSE [image |-> None,
          calls |-> <<[prompt |-> prompt, response |-> response]>>,
          errors |-> <<error_display(response.error)>>]

\* One call of client.text_to_image(prompt, model=MODEL_NAME); response is what
\* the service answers: an image, or an exception whose str() is response.error.
generate_image(prompt, response) ==
    IF response.ok
    THEN [image |-> response.image,
          calls |-> <<[prompt |-> prompt, response |-> response]>>,
          errors |-> <<>>]
    ELSE [image |-> None,
          calls |-> <<[prompt |-> prompt, response |-> response]>>,
          errors |-> <<error_display(response.error)>>]

----
\* main

\* if 'image_history' not in st.session_state: st.session_state.image_history = []
init_session_state(ss) ==
    IF "image_history" \in DOMAIN ss THEN ss ELSE [image_history |-> <<>>]

\* a page with no token check
token_unchecked(token) == FALSE

\* if not HUGGINGFACE_TOKEN: ... st.stop()
token_missing(token) == ~TruthyStr(token)

\* the suffix added to the prompt as typed
enhanced_prompt_unstripped(prompt, selected_style) == prompt \o STYLE_PRESETS[selected_style]

\* style_suffix = STYLE_PRESETS[selected_style]; enhanced_prompt = prompt.strip() + style_suffix
enhanced_prompt(prompt, selected_style) == strip(prompt) \o STYLE_PRESETS[selected_style]

\* the image_data dictionary saved to the history
image_data(img, prompt, enhanced, selected_style, timestamp) ==
    [image |-> img,
     prompt |-> strip(prompt),
     enhanced_prompt |-> enhanced,
     style |-> selected_style,
     timestamp |-> timestamp]

\* insert(0, ...) with no cut
save_uncapped(history, record) == <<record>> \o history

\* insert(0, ...) with the cut taken from the front
save_cut_front(history, record) ==
    LET inserted == <<record>> \o history
    IN  IF Len(inserted) > HistoryLimit THEN SubSeq(inserted, 2, Len(inserted)) ELSE inserted

\* append(...) instead of insert(0, ...), then the cut to the last 10
save_appended(history, record) ==
    LET appended == history \o <<record>>
    IN  IF Len(appended) > HistoryLimit
        THEN SubSeq(appended, Len(appended) - HistoryLimit + 1, Len(appended))
        ELSE appended

\* image_history.insert(0, image_data), then the cut to the first 10
save_to_history(history, record) ==
    LET inserted == <<record>> \o history
    IN  IF Len(inserted) > HistoryLimit THEN SubSeq(inserted, 1, HistoryLimit) ELSE inserted

\* The branch taken once generate_image has returned: save and show the image
\* if the result is truthy, else nothing more.
after_generate(history, prompt, enhanced, selected_style, res, timestamp) ==
    IF TruthyImage(res.image)
    THEN LET record == image_data(res.image, prompt, enhanced, selected_style, timestamp)
         IN  [history |-> save_to_history(history, record), saved |-> <<record>>,
              calls |-> res.calls, image |-> res.image,
              shown |-> res.errors \o <<OkGenerated>>]
    ELSE [history |-> history, saved |-> <<>>, calls |-> res.calls, image |-> res.image,
          shown |-> res.errors]

\* if generate_button: ...   The result of the branch as a record: the history
\* after it, the record saved (if any), the remote exchanges, generate_image's
\* result and the messages shown.
generation_logic(history, prompt, selected_style, response, timestamp) ==
    IF strip(prompt) = <<>>
    THEN [history |-> history, saved |-> <<>>, calls |-> <<>>, image |-> None,
          shown |-> <<WarnEmptyPrompt>>]
    ELSE after_generate(history, prompt, enhanced_prompt(prompt, selected_style), selected_style,
                        generate_image(enhanced_prompt(prompt, selected_style), response),
                        timestamp)

\* a clear that keeps the latest image
clear_but_latest(history) == SubSeq(history, 1, 1)

\* if st.button("Clear History"): st.session_state.image_history = []
clear_history(history) == <<>>

----
\* Inputs

Tokens == {UnsetToken, [isNone |-> FALSE, str |-> <<>>], [isNone |-> FALSE, str |-> <<"h", "f",
    "_", "x">>]}

Image == [ok |-> TRUE, image |-> "png", error |-> <<>>]

Raises(error_msg) == [ok |-> FALSE, image |-> None, error |-> error_msg]

\* one message of each class, as the service words them
ErrorMessages ==
    {<<"E", "r", "r", "o", "r", " ", "5", "0", "3", ":", " ", "l", "o", "a", "d", "i", "n",
        "g">>, <<"4", "2", "9", " ", "T", "o", "o", " ", "M", "a", "n", "y", " ", "R", "e", "q",
        "u", "e", "s", "t", "s">>, <<"4", "0", "1", " ", "u", "n", "a", "u", "t", "h", "o", "r",
        "i", "z", "e", "d">>,
     <<"I", "n", "t", "e", "r", "n", "a", "l", " ", "S", "e", "r", "v", "e", "r", " ", "E", "r",
         "r", "o", "r">>}

\* messages that match several classes, match by case only, or match nothing
MoreErrorMessages ==
    {<<"M", "o", "d", "e", "l", " ", "i", "s", " ", "L", "O", "A", "D", "I", "N", "G">>, <<"R",
        "a", "t", "e", " ", "L", "i", "m", "i", "t", " ", "e", "x", "c", "e", "e", "d", "e",
        "d">>, <<"U", "N", "A", "U", "T", "H", "O", "R", "I", "Z", "E", "D">>, <<"4", "2", "9",
        " ", "w", "h", "i", "l", "e", " ", "l", "o", "a", "d", "i", "n", "g">>,
     <<"4", "0", "1", " ", "r", "a", "t", "e", " ", "l", "i", "m", "i", "t">>, <<"U", "n", "a",
         "u", "t", "h", "o", "r", "i", "z", "e", "d", ":", " ", "5", "0", "3">>, <<"5", " ", "0",
         " ", "3">>, <<>>}

\* (prompt, selected_style, response) of a generate click in a long session
SessionInputs ==
    ({<<>>, <<" ", "\n">>} \X {"None"} \X {Image})
        \cup ({<<" ", "c", "a", "t",
            "\t">>} \X {"Anime"} \X ({Image} \cup {Raises(m) : m \in ErrorMessages}))

\* ... and in a short session: one prompt under every style, every prompt under
\* one style, and every message
WideInputs ==
    ({<<" ", " ", "a", " ", "r", "e", "d", " ", "f", "o", "x",
        " ">>} \X (DOMAIN STYLE_PRESETS) \X {Image})
        \cup ({<<>>, <<" ", "\n">>, <<"\t", " ">>, <<"c", "a", "t">>, <<" ", "c", "a", "t",
            "\t">>, <<"\n", "c", "a", "t", " ", " ", "c", "a", "t", "\r", "\n">>}
                  \X {"Anime"} \X {Image, Raises(<<"I", "n", "t", "e", "r", "n", "a", "l", " ",
                      "S", "e", "r", "v", "e", "r", " ", "E", "r", "r", "o", "r">>)})
        \cup ({<<"c", "a",
            "t">>} \X {"None"} \X {Raises(m) : m \in ErrorMessages \cup MoreErrorMessages})

NoRequest == [prompt |-> <<>>, style |-> "None"]

\* st.session_state.image_history as the page lists it
image_history == init_session_state(session_state).image_history

----
\* The session

Init ==
    /\ HUGGINGFACE_TOKEN \in Tokens
    /\ session_state = <<>>
    /\ clock = 0
    /\ run = "notrun"
    /\ button = "none"
    /\ request = NoRequest
    /\ calls = <<>>
    /\ image = None
    /\ shown = <<>>
    /\ pushed = <<>>

\* A run of main() with no button clicked: the page load, or any other widget change.
Rerun ==
    /\ session_state' = init_session_state(session_state)
    /\ IF token_missing(HUGGINGFACE_TOKEN)
       THEN run' = "stopped" /\ shown' = <<ErrTokenNotFound, InfoSetup>>
       ELSE run' = "completed" /\ shown' = <<>>
    /\ button' = "none"
    /\ request' = NoRequest
    /\ calls' = <<>>
    /\ image' = None
    /\ UNCHANGED <<HUGGINGFACE_TOKEN, clock, pushed>>

\* A run of main() triggered by the Generate button, which only a run that got
\* past the token check has rendered.
ClickGenerate(prompt, selected_style, response) ==
    /\ run = "completed"
    /\ \E out \in {generation_logic(image_history, prompt, selected_style, response, clock + 1)} :
           /\ clock + Len(out.saved) <= MaxClock
           /\ session_state' = [init_session_state(session_state) EXCEPT
                                   !.image_history = out.history]
           /\ calls' = out.calls
           /\ image' = out.image
           /\ shown' = out.shown
           /\ clock' = clock + Len(out.saved)
           /\ pushed' = pushed \o out.saved
    /\ run' = "completed"
    /\ button' = "generate"
    /\ request' = [prompt |-> prompt, style |-> selected_style]
    /\ UNCHANGED HUGGINGFACE_TOKEN

\* A run of main() triggered by the Clear History button, rendered only under a
\* non-empty history; st.rerun() then runs main() again with no button clicked.
ClickClear ==
    /\ run = "completed"
    /\ image_history # <<>>
    /\ session_state' = [init_session_state(session_state) EXCEPT
                            !.image_history = clear_history(@)]
    /\ pushed' = <<>>
    /\ run' = "completed"
    /\ shown' = <<>>
    /\ button' = "clear"
    /\ request' = NoRequest
    /\ calls' = <<>>
    /\ image' = None
    /\ UNCHANGED <<HUGGINGFACE_TOKEN, clock>>

Next ==
    \/ Rerun
    \/ \E in \in SessionInputs : ClickGenerate(in[1], in[2], in[3])
    \/ ClickClear

Spec == Init /\ [][Next]_vars

\* A short session over the wide inputs
NextWide ==
    \/ Rerun
    \/ \E in \in WideInputs : ClickGenerate(in[1], in[2], in[3]) /\ clock' <= MaxWideClock
    \/ ClickClear

SpecWide == Init /\ [][NextWide]_vars

----
\* Vocabulary of the properties

IsBlank(s) == \A i \in 1..Len(s) : s[i] \in Whitespace

\* s without its leading and trailing whitespace
Trimmed(s) ==
    IF IsBlank(s)
    THEN <<>>
    ELSE LET first == CHOOSE i \in 1..Len(s) :
                          s[i] \notin Whitespace /\ \A k \in 1..(i - 1) : s[k] \in Whitespace
             last == CHOOSE j \in 1..Len(s) :
                         s[j] \notin Whitespace /\ \A k \in (j + 1)..Len(s) : s[k] \in Whitespace
         IN  SubSeq(s, first, last)

Min(a, b) == IF a < b THEN a ELSE b

\* the n latest entries of log, latest first
MostRecentFirst(log, n) == [i \in 1..n |-> log[Len(log) - i + 1]]

\* the last run was a generate click whose remote call raised
Failed == button = "generate" /\ calls # <<>> /\ ~calls[Len(calls)].response.ok

\* the last run was a generate click that produced an image
Generated == button = "generate" /\ image # None

\* the last run was a generate click that ended in a warning or an error
AfterError == button = "generate" /\ image = None

\* the four kinds of a failed remote call, by first match
ErrorKind(m) ==
    IF contains(<<"5", "0", "3">>, m) \/ contains(<<"l", "o", "a", "d", "i", "n",
        "g">>, lower(m)) THEN "ModelLoading"
    ELSE IF contains(<<"4", "2", "9">>, m) \/ contains(<<"r", "a", "t", "e", " ", "l", "i", "m",
        "i", "t">>, lower(m)) THEN "RateLimited"
    ELSE IF contains(<<"4", "0", "1">>, m) \/ contains(<<"u", "n", "a", "u", "t", "h", "o", "r",
        "i", "z", "e", "d">>, lower(m)) THEN "Unauthorized"
    ELSE "Unknown"

MessageOfKind(kind, m) ==
    CASE kind = "ModelLoading" -> ErrModelLoading
      [] kind = "RateLimited" -> ErrRateLimited
      [] kind = "Unauthorized" -> ErrUnauthorized
      [] kind = "Unknown" -> [level |-> "error", text |-> "An error occurred: ", arg |-> m]

\* a generate click of a long session whose prompt is not blank and whose call succeeds
GenerateOk ==
    \E in \in SessionInputs : in[3].ok /\ ~IsBlank(in[1]) /\ ClickGenerate(in[1], in[2], in[3])

\* any click on a button of the page
AnyClick == (\E in \in SessionInputs : ClickGenerate(in[1], in[2], in[3])) \/ ClickClear

----
\* Properties

\* C1: in every reachable state of a session the image history holds at most
\* 10 records.
C1_HistoryAtMostTen == Len(image_history) <= 10

\* an eleventh image has been generated and the history is full
C1_Witness == Len(pushed) > 10 /\ Len(image_history) = 10

\* C2: after n successful generations since the store was last empty, the
\* history is exactly the min(n, 10) most recently saved records, most recent
\* first, each as it was when saved.
C2_MostRecentFirst == image_history = MostRecentFirst(pushed, Min(Len(pushed), 10))

\* eleven saved: the eleventh is at the front, the second at the back, the first gone
C2_Witness ==
    /\ Len(pushed) = 11
    /\ image_history[1] = pushed[11]
    /\ image_history[10] = pushed[2]
    /\ \A i \in 1..Len(image_history) : image_history[i] # pushed[1]

\* C3: a run whose remote call fails, whatever the message, returns no image
\* and leaves the history exactly as it was.
C3_FailureLeavesHistory ==
    [][Failed' => (image' = None /\ image_history' = image_history)]_vars

\* an Unauthorized failure over a non-empty history
C3_Witness ==
    /\ Failed
    /\ image = None
    /\ image_history # <<>>
    /\ calls[1].response.error = <<"4", "0", "1", " ", "u", "n", "a", "u", "t", "h", "o", "r",
        "i", "z", "e", "d">>

\* C4: a generate click whose prompt is blank after trimming issues no remote
\* call, leaves the history unchanged and shows the validation warning; a
\* remote call is issued only for a prompt that is not blank.
C4_BlankPromptRejected ==
    [][button' = "generate" =>
          /\ IsBlank(request'.prompt) =>
                 /\ calls' = <<>>
                 /\ image_history' = image_history
                 /\ shown' = <<WarnEmptyPrompt>>
          /\ calls' # <<>> => ~IsBlank(request'.prompt)]_vars

\* a whitespace-only prompt rejected over a non-empty history
C4_Witness ==
    /\ button = "generate"
    /\ request.prompt = <<"\t", " ">>
    /\ calls = <<>>
    /\ shown = <<WarnEmptyPrompt>>
    /\ image_history # <<>>

\* C5: a failed remote call shows exactly one message, that of the first kind
\* its text matches in the order ModelLoading, RateLimited, Unauthorized,
\* Unknown; the Unknown message carries the raw text.
C5_FirstMatchClassification ==
    Failed =>
        LET m == calls[Len(calls)].response.error
        IN  shown = <<MessageOfKind(ErrorKind(m), m)>>

\* a message matching RateLimited and ModelLoading is shown as ModelLoading
C5_Witness ==
    /\ Failed
    /\ calls[1].response.error = <<"4", "2", "9", " ", "w", "h", "i", "l", "e", " ", "l", "o",
        "a", "d", "i", "n", "g">>
    /\ shown = <<ErrModelLoading>>

\* C6: after a successful generation the record at the front has the trimmed
\* prompt, the selected style and the trimmed prompt followed by the style's
\* suffix, which is the string sent to the service; every record of the
\* history has enhanced_prompt = prompt + suffix of its style.
C6_RecordMatchesRequest ==
    /\ Generated =>
           /\ image_history # <<>>
           /\ image_history[1].prompt = Trimmed(request.prompt)
           /\ image_history[1].style = request.style
           /\ image_history[1].enhanced_prompt
                  = Trimmed(request.prompt) \o STYLE_PRESETS[request.style]
           /\ request.style = "None" => image_history[1].enhanced_prompt = Trimmed(request.prompt)
           /\ Len(calls) = 1
           /\ calls[1].prompt = image_history[1].enhanced_prompt
    /\ \A i \in 1..Len(image_history) :
           image_history[i].enhanced_prompt
               = image_history[i].prompt \o STYLE_PRESETS[image_history[i].style]

\* "  a red fox " under Anime
C6_Witness ==
    /\ Generated
    /\ request = [prompt |-> <<" ", " ", "a", " ", "r", "e", "d", " ", "f", "o", "x",
        " ">>, style |-> "Anime"]
    /\ image_history[1].prompt = <<"a", " ", "r", "e", "d", " ", "f", "o", "x">>
    /\ image_history[1].enhanced_prompt =
           <<"a", " ", "r", "e", "d", " ", "f", "o", "x", ",", " ", "a", "n", "i", "m", "e", " ",
               "s", "t", "y", "l", "e", ",", " ", "v", "i", "b", "r", "a", "n", "t", " ", "c",
               "o", "l", "o", "r", "s", ",", " ", "S", "t", "u", "d", "i", "o", " ", "G", "h",
               "i", "b", "l", "i", " ", "i", "n", "s", "p", "i", "r", "e", "d", ",", " ", "d",
               "e", "t", "a", "i", "l", "e", "d", " ", "i", "l", "l", "u", "s", "t", "r", "a",
               "t", "i", "o", "n">>

\* C7: a click on Clear History leaves the history empty whatever it held, and
\* a successful generation over an empty history leaves exactly one record.
C7_ClearEmpties ==
    [][/\ button' = "clear" => image_history' = <<>>
       /\ (image_history = <<>> /\ Generated') => Len(image_history') = 1]_vars

\* one record, the eleventh saved: ten were saved, the history was cleared, one more was saved
C7_Witness ==
    /\ Generated
    /\ Len(image_history) = 1
    /\ image_history[1].timestamp = 11

\* C8: a run issues at most one remote call, and a failed call of any kind
\* gives the caller no image.
C8_AtMostOneCall == Len(calls) <= 1 /\ (Failed => image = None)

\* a ModelLoading failure: one call, no image
C8_Witness ==
    /\ Failed
    /\ shown = <<ErrModelLoading>>
    /\ Len(calls) = 1
    /\ image = None

\* C9: after a run that ended in a warning or an error the page is complete and
\* a further generate click is possible, and such a click that succeeds puts
\* its record at the front of the history.
C9_SessionUsableAfterError ==
    /\ [](AfterError => (run = "completed" /\ (clock < MaxClock => ENABLED GenerateOk)))
    /\ [][(AfterError /\ Generated') =>
              /\ image_history' # <<>>
              /\ image_history'[1].timestamp = clock'
              /\ image_history'[1].prompt = Trimmed(request'.prompt)
              /\ Len(image_history') = Min(Len(image_history) + 1, 10)]_vars

\* a RateLimited failure over a non-empty history, with a further generation possible
C9_Witness ==
    /\ AfterError
    /\ shown = <<ErrRateLimited>>
    /\ image_history # <<>>
    /\ ENABLED GenerateOk

\* C10: while the token is unset the page stops at the token check: no button
\* can be clicked, no remote call is made, the history is empty and the setup
\* instructions are shown.
C10_NoTokenNoGeneration ==
    HUGGINGFACE_TOKEN.isNone =>
        /\ run \in {"notrun", "stopped"}
        /\ run = "stopped" => shown = <<ErrTokenNotFound, InfoSetup>>
        /\ button = "none"
        /\ calls = <<>>
        /\ image_history = <<>>
        /\ ~ENABLED AnyClick

\* the page has run and stopped at the token check
C10_Witness == HUGGINGFACE_TOKEN.isNone /\ run = "stopped"

====
